---- MODULE Spec2Model ----
(***************************************************************************)
(* World CIDRs manager (package worldcidrs): the desired-state store       *)
(* manager.cidrSets, the goroutine started by runReconciliationAfterK8sSync*)
(* and the event handlers OnAddWorldCIDRSet / OnDeleteWorldCIDRSet, which  *)
(* reconcile the store with the world CIDR BPF map under manager.Mutex.    *)
(*                                                                         *)
(* A CIDR (a net.IPNet) is a pair <<ip, ones>>; a map key (WorldCIDRKey4)  *)
(* is the pair with the ip masked to its prefix length.  Package           *)
(* worldcidrsmap is not part of the sources at hand: its key constructor,  *)
(* Matches, GetCIDR and the effect of Add / Delete / IterateWithCallback   *)
(* follow the interface contract of the specification.                     *)
(*                                                                         *)
(* The last part models daemon/cmd/cni_utils.go: insertConfList,           *)
(* getCNINetworkListFromFile and getDefaultCNINetworkList as functions of  *)
(* their arguments, applied by the actions of CNISpec.                     *)
(***************************************************************************)
EXTENDS Integers, Sequences, FiniteSets, TLC

\* ---------------------------------------------------------------- bounds
\* width of an address in bits (32 for IPv4)
AddrBits == 2
\* largest number of CIDRs listed by one CIDR set
MaxCIDRs == 1

\* identities of CIDR sets (cidrSetID)
IDs == {"a", "b"}
\* goroutines calling the event handlers, and the goroutine of the sync gate
Handlers == {"h1", "h2"}
Poller == "poller"
Threads == Handlers \cup {Poller}
NoThread == "none"
NoKey == <<>>

\* the CIDRs events may list: <<1,1>> has host bits set, its key is <<0,1>>;
\* <<2,2>> is a network of its own
CIDRs == {<<1, 1>>, <<2, 2>>}
\* a CIDR no set lists but the map may hold at start-up; it contains <<2,2>>
StaleCIDRs == {<<2, 1>>}
CIDRLists == UNION {[1..n -> CIDRs] : n \in 0..MaxCIDRs}

RECURSIVE Pow2(_)
Pow2(n) == IF n = 0 THEN 1 ELSE 2 * Pow2(n - 1)

\* ------------------------------------------------- package worldcidrsmap
\* ip & mask: the address with the bits after the prefix length cleared
MaskIP(ip, ones) == (ip \div Pow2(AddrBits - ones)) * Pow2(AddrBits - ones)
NewWorldCIDRKey4(cidr) == <<MaskIP(cidr[1] % Pow2(AddrBits), cidr[2]), cidr[2]>>
GetCIDR(key) == key
Matches(key, cidr) == key = NewWorldCIDRKey4(cidr)
MapAdd(m, cidr) == m \cup {NewWorldCIDRKey4(cidr)}
MapDelete(m, cidr) == m \ {NewWorldCIDRKey4(cidr)}
MapIterate(m) == m
Keys == {NewWorldCIDRKey4(c) : c \in CIDRs \cup StaleCIDRs}
\* one of the two prefixes contains the other (or they are the same prefix)
Overlaps(k, d) ==
  LET n == IF k[2] < d[2] THEN k[2] ELSE d[2]
  IN  MaskIP(k[1], n) = MaskIP(d[1], n)

\* ------------------------------------------------------------ the state
VARIABLES
  cidrSets,    \* manager.cidrSets: a function from the ids it holds to lists of CIDRs
  table,       \* the keys held by worldcidrsmap.WorldCIDRsMap
  synced,      \* what K8sCacheIsSynced() returns when called now
  mutex,       \* the goroutine holding manager.Mutex, or NoThread
  pc,          \* position of every goroutine
  worldCIDRs,  \* per goroutine: the local snapshot map of the running phase
  setsLeft,    \* per goroutine: sets the range over manager.cidrSets has left
  cur,         \* per goroutine: what the range over cidrSet.cidrs has left
  keysLeft,    \* per goroutine: keys the range over worldCIDRs has left
  event,       \* per handler: the call being served
  seen,        \* per goroutine: what reconcile() read from the oracle
  phasesRun,   \* per goroutine: the phases the running reconcile() has started
  calls,       \* per goroutine: the map calls of the running reconcile()
  table0,      \* per goroutine: the map when the goroutine took the lock
  gateLocks,   \* number of times the sync gate goroutine took the lock
  converged,   \* the last pass succeeded throughout, the store is as it was
  wasConverged,\* per goroutine: converged, when its reconcile() started
  cniArgs,     \* the arguments of the call of a function of cni_utils.go at hand
  cniRet       \* what that call has returned, NoRet before it returns

vars == <<cidrSets, table, synced, mutex, pc, worldCIDRs, setsLeft, cur,
          keysLeft, event, seen, phasesRun, calls, table0, gateLocks,
          converged, wasConverged, cniArgs, cniRet>>

managerVars == <<cidrSets, table, synced, mutex, pc, worldCIDRs, setsLeft, cur,
                 keysLeft, event, seen, phasesRun, calls, table0, gateLocks,
                 converged, wasConverged>>
cniVars == <<cniArgs, cniRet>>
\* no call of a function of cni_utils.go, and no result yet
NoArgs == [fn |-> "none"]
NoRet == [fn |-> "none"]

loopVars == <<worldCIDRs, setsLeft, cur, keysLeft>>

\* old: the keys of the list the store held for id before the call
NoEvent == [op |-> "none", id |-> "none", cidrs |-> <<>>, known |-> FALSE, old |-> {}]

\* the union of the keys of all CIDRs of all sets of the store
LiveIDs(sets) == DOMAIN sets
KeysOf(cidrs) == {NewWorldCIDRKey4(cidrs[i]) : i \in 1..Len(cidrs)}
OldOf(sets, id) == IF id \in DOMAIN sets THEN KeysOf(sets[id]) ELSE {}
DesiredKeys(sets) == UNION {KeysOf(sets[id]) : id \in LiveIDs(sets)}

\* one logged call on the map
Call(op, key, ok, present) == [op |-> op, key |-> key, ok |-> ok, present |-> present]
AllOk(log) == \A i \in 1..Len(log) : log[i].ok
OpsOf(log, op) == {i \in 1..Len(log) : log[i].op = op}

\* ------------------------------------------------ decisions of the code
\* the sync gate holding the mutex all the while it polls and sleeps: Lock()
\* returns to nobody until the loop has been left
LockHeldWhilePolling == mutex = NoThread /\ pc[Poller] # "poll"
\* a lock that does not exclude: Lock() returns whoever holds the mutex
LockNotExclusive == TRUE
\* manager.Lock() returns only while no goroutine holds the mutex
CanLock == mutex = NoThread

\* reconcile() without its guard: the pass runs whatever the oracle says
NeverNotReady(isSynced) == FALSE
\* reconcile(): if !manager.k8sCacheSyncedChecker.K8sCacheIsSynced() { return }
NotReady(isSynced) == ~isSynced

\* the loop of the sync gate with its test inverted: it is left while the
\* oracle reports not synced
BreakWhenNotSynced(isSynced) == ~isSynced
\* runReconciliationAfterK8sSync: if ...K8sCacheIsSynced() { break }
Break(isSynced) == isSynced

\* the two calls of reconcile() in the other order
ReconcileStepsSwapped == <<"removeUnused", "addMissing">>
\* reconcile(): manager.addMissingCIDRs(); manager.removeUnusedCIDRs()
ReconcileSteps == <<"addMissing", "removeUnused">>
StepAfter(started) ==
  IF Len(started) < Len(ReconcileSteps) THEN ReconcileSteps[Len(started) + 1]
  ELSE "unlock"

\* addCIDR taking every CIDR for present, and taking none for present
CIDRPresentAlways(key, snapshot) == TRUE
CIDRPresentNever(key, snapshot) == FALSE
\* addCIDR: _, cidrPresent := worldCIDRs[worldCIDRKey]
CIDRPresent(key, snapshot) == key \in snapshot

\* removeUnusedCIDRs comparing the entry with the CIDR as the set lists it,
\* host bits and all, instead of asking Matches
UnusedByRawCompare(worldCIDR, sets) ==
  ~ \E id \in LiveIDs(sets) : \E i \in 1..Len(sets[id]) : worldCIDR = sets[id][i]
\* removeUnusedCIDRs keeping an entry that covers, or is covered by, a CIDR of
\* some set
UnusedByOverlap(worldCIDR, sets) ==
  ~ \E id \in LiveIDs(sets) : \E i \in 1..Len(sets[id]) :
      Overlaps(worldCIDR, NewWorldCIDRKey4(sets[id][i]))
\* removeUnusedCIDRs leaving the search at the first set that does not list
\* the entry: the entry counts as unused when some set has no match for it
UnusedBySomeSet(worldCIDR, sets) ==
  \E id \in LiveIDs(sets) : ~ \E i \in 1..Len(sets[id]) : Matches(worldCIDR, sets[id][i])
\* removeUnusedCIDRs: no CIDR of any set matches the map entry
Unused(worldCIDR, sets) ==
  ~ \E id \in LiveIDs(sets) : \E i \in 1..Len(sets[id]) : Matches(worldCIDR, sets[id][i])

\* an update that appends the new CIDRs to the ones the store holds for the id
SetsAfterAddMerged(sets, id, cidrs) ==
  [i \in DOMAIN sets \cup {id} |->
     IF i # id THEN sets[i] ELSE IF id \in DOMAIN sets THEN sets[id] \o cidrs ELSE cidrs]
\* manager.cidrSets[cidrSet.id] = &cidrSet
SetsAfterAdd(sets, id, cidrs) ==
  [i \in DOMAIN sets \cup {id} |-> IF i = id THEN cidrs ELSE sets[i]]
\* a delete that empties the store
SetsAfterDeleteAll(sets, id) == [i \in {} |-> <<>>]
\* a delete that leaves the store as it was
SetsAfterDeleteKept(sets, id) == sets
\* delete(manager.cidrSets, id)
SetsAfterDelete(sets, id) == [i \in DOMAIN sets \ {id} |-> sets[i]]

\* OnDeleteWorldCIDRSet without the early return: no id counts as not found
SetNeverNotFound(sets, id) == FALSE
\* OnDeleteWorldCIDRSet: if manager.cidrSets[id] == nil { ...; return }
SetNotFound(sets, id) == id \notin DOMAIN sets

\* removeUnusedCIDRs coming back to an entry after its Delete has succeeded
KeysLeftRevisitDeleted(left, worldCIDR, ok) == IF ok THEN left ELSE left \ {worldCIDR}
\* removeUnusedCIDRs leaving the loop at the first Delete that fails
KeysLeftAbortOnError(left, worldCIDR, ok) == IF ok THEN left \ {worldCIDR} ELSE {}
\* removeUnusedCIDRs: a failed Delete is logged and the range goes on with the
\* next entry of worldCIDRs
KeysLeftAfter(left, worldCIDR, ok) == left \ {worldCIDR}

\* ------------------------------------------------------------- actions
ManagerInit ==
  /\ cidrSets = [id \in {} |-> <<>>]
  /\ table \in SUBSET Keys
  /\ synced \in BOOLEAN
  /\ mutex = NoThread
  /\ pc = [t \in Threads |-> IF t = Poller THEN "poll" ELSE "idle"]
  /\ worldCIDRs = [t \in Threads |-> {}]
  /\ setsLeft = [t \in Threads |-> {}]
  /\ cur = [t \in Threads |-> <<>>]
  /\ keysLeft = [t \in Threads |-> {}]
  /\ event = [t \in Threads |-> NoEvent]
  /\ seen = [t \in Threads |-> "none"]
  /\ phasesRun = [t \in Threads |-> <<>>]
  /\ calls = [t \in Threads |-> <<>>]
  /\ table0 = [t \in Threads |-> {}]
  /\ gateLocks = 0
  /\ converged = FALSE
  /\ wasConverged = [t \in Threads |-> FALSE]

Init ==
  /\ ManagerInit
  /\ cniArgs = NoArgs
  /\ cniRet = NoRet

\* the oracle's answer changes: the manager neither controls nor records it
OracleChange ==
  /\ synced' = ~synced
  /\ UNCHANGED <<cidrSets, table, mutex, pc, loopVars, event, seen, phasesRun,
                 calls, table0, gateLocks, converged, wasConverged>>
  /\ UNCHANGED cniVars

\* runReconciliationAfterK8sSync: one turn of the for loop; not synced, the
\* goroutine sleeps a second and is back at the head of the loop
Poll ==
  /\ pc[Poller] = "poll"
  /\ pc' = [pc EXCEPT ![Poller] = IF Break(synced) THEN "lock" ELSE "poll"]
  /\ UNCHANGED <<cidrSets, table, synced, mutex, loopVars, event, seen, phasesRun,
                 calls, table0, gateLocks, converged, wasConverged>>
  /\ UNCHANGED cniVars

\* runReconciliationAfterK8sSync: manager.Lock()
GateLock ==
  /\ pc[Poller] = "lock"
  /\ CanLock
  /\ mutex' = Poller
  /\ gateLocks' = gateLocks + 1
  /\ table0' = [table0 EXCEPT ![Poller] = table]
  /\ pc' = [pc EXCEPT ![Poller] = "reconcile"]
  /\ UNCHANGED <<cidrSets, table, synced, loopVars, event, seen, phasesRun,
                 calls, converged, wasConverged>>
  /\ UNCHANGED cniVars

\* a caller has entered OnAddWorldCIDRSet or OnDeleteWorldCIDRSet and has
\* reached manager.Lock(); used where a call that waits for the mutex has to
\* be told from no call at all
Called(h) ==
  /\ pc[h] = "idle"
  /\ pc' = [pc EXCEPT ![h] = "called"]
  /\ UNCHANGED <<cidrSets, table, synced, mutex, loopVars, event, seen, phasesRun,
                 calls, table0, gateLocks, converged, wasConverged>>
  /\ UNCHANGED cniVars

\* OnAddWorldCIDRSet up to the call of reconcile(); the caller is held at
\* manager.Lock() until the mutex is free
OnAddWorldCIDRSet(h, id, cidrs) ==
  /\ pc[h] \in {"idle", "called"}
  /\ CanLock
  /\ mutex' = h
  /\ event' = [event EXCEPT ![h] =
                 [op |-> "add", id |-> id, cidrs |-> cidrs,
                  known |-> id \in DOMAIN cidrSets, old |-> OldOf(cidrSets, id)]]
  /\ cidrSets' = SetsAfterAdd(cidrSets, id, cidrs)
  /\ converged' = (converged /\ cidrSets' = cidrSets)
  /\ table0' = [table0 EXCEPT ![h] = table]
  /\ pc' = [pc EXCEPT ![h] = "reconcile"]
  /\ UNCHANGED <<table, synced, loopVars, seen, phasesRun, calls, gateLocks,
                 wasConverged>>
  /\ UNCHANGED cniVars

\* OnDeleteWorldCIDRSet up to the call of reconcile(), or up to the return
\* when the set is not found
OnDeleteWorldCIDRSet(h, id) ==
  /\ pc[h] \in {"idle", "called"}
  /\ CanLock
  /\ mutex' = h
  /\ event' = [event EXCEPT ![h] =
                 [op |-> "delete", id |-> id, cidrs |-> <<>>,
                  known |-> id \in DOMAIN cidrSets, old |-> OldOf(cidrSets, id)]]
  /\ table0' = [table0 EXCEPT ![h] = table]
  /\ IF SetNotFound(cidrSets, id)
       THEN /\ pc' = [pc EXCEPT ![h] = "unlock"]
            /\ UNCHANGED <<cidrSets, converged>>
       ELSE /\ cidrSets' = SetsAfterDelete(cidrSets, id)
            /\ converged' = FALSE
            /\ pc' = [pc EXCEPT ![h] = "reconcile"]
  /\ UNCHANGED <<table, synced, loopVars, seen, phasesRun, calls, gateLocks,
                 wasConverged>>
  /\ UNCHANGED cniVars

\* reconcile(): the question to the oracle
Reconcile(t) ==
  /\ pc[t] = "reconcile"
  /\ seen' = [seen EXCEPT ![t] = IF synced THEN "synced" ELSE "notsynced"]
  /\ wasConverged' = [wasConverged EXCEPT ![t] = converged]
  /\ pc' = [pc EXCEPT ![t] = IF NotReady(synced) THEN "unlock" ELSE StepAfter(<<>>)]
  /\ UNCHANGED <<cidrSets, table, synced, mutex, loopVars, event, phasesRun,
                 calls, table0, gateLocks, converged>>
  /\ UNCHANGED cniVars

\* addMissingCIDRs: the IterateWithCallback that fills worldCIDRs
AddMissingSnapshot(t) ==
  /\ pc[t] = "addMissing"
  /\ worldCIDRs' = [worldCIDRs EXCEPT ![t] = MapIterate(table)]
  /\ setsLeft' = [setsLeft EXCEPT ![t] = LiveIDs(cidrSets)]
  /\ cur' = [cur EXCEPT ![t] = <<>>]
  /\ calls' = [calls EXCEPT ![t] = Append(@, Call("Iterate", NoKey, TRUE, TRUE))]
  /\ phasesRun' = [phasesRun EXCEPT ![t] = Append(@, "addMissing")]
  /\ pc' = [pc EXCEPT ![t] = "addLoop"]
  /\ UNCHANGED <<cidrSets, table, synced, mutex, keysLeft, event, seen, table0,
                 gateLocks, converged, wasConverged>>
  /\ UNCHANGED cniVars

\* addCIDR(cidr)
AddCIDR(t, cidr) ==
  LET key == NewWorldCIDRKey4(cidr) IN
  IF CIDRPresent(key, worldCIDRs[t])
    THEN UNCHANGED <<table, calls>>
    ELSE \/ /\ table' = MapAdd(table, cidr)
            /\ calls' = [calls EXCEPT ![t] = Append(@, Call("Add", key, TRUE, key \in table))]
         \/ /\ table' = table
            /\ calls' = [calls EXCEPT ![t] = Append(@, Call("Add", key, FALSE, key \in table))]

\* the sets the range over manager.cidrSets may visit next and that list a CIDR
\* (a set listing none is ranged over without effect)
NextSets(t) == {id \in setsLeft[t] \cap LiveIDs(cidrSets) : Len(cidrSets[id]) > 0}

\* addMissingCIDRs: one turn of the inner loop, on the next CIDR of the set at
\* hand or on the first CIDR of a set not ranged over yet (map order)
AddLoop(t) ==
  /\ pc[t] = "addLoop"
  /\ \/ /\ cur[t] # <<>>
        /\ AddCIDR(t, Head(cur[t]))
        /\ cur' = [cur EXCEPT ![t] = Tail(@)]
        /\ UNCHANGED setsLeft
     \/ /\ cur[t] = <<>>
        /\ \E id \in NextSets(t) :
             /\ AddCIDR(t, Head(cidrSets[id]))
             /\ cur' = [cur EXCEPT ![t] = Tail(cidrSets[id])]
             /\ setsLeft' = [setsLeft EXCEPT ![t] = @ \ {id}]
  /\ UNCHANGED <<cidrSets, synced, mutex, pc, worldCIDRs, keysLeft, event, seen,
                 phasesRun, table0, gateLocks, converged, wasConverged>>
  /\ UNCHANGED cniVars

\* addMissingCIDRs returns
AddDone(t) ==
  /\ pc[t] = "addLoop"
  /\ cur[t] = <<>>
  /\ NextSets(t) = {}
  /\ pc' = [pc EXCEPT ![t] = StepAfter(phasesRun[t])]
  /\ worldCIDRs' = [worldCIDRs EXCEPT ![t] = {}]
  /\ setsLeft' = [setsLeft EXCEPT ![t] = {}]
  /\ UNCHANGED <<cidrSets, table, synced, mutex, cur, keysLeft, event, seen,
                 phasesRun, calls, table0, gateLocks, converged, wasConverged>>
  /\ UNCHANGED cniVars

\* removeUnusedCIDRs: the IterateWithCallback that fills worldCIDRs
RemoveUnusedSnapshot(t) ==
  /\ pc[t] = "removeUnused"
  /\ worldCIDRs' = [worldCIDRs EXCEPT ![t] = MapIterate(table)]
  /\ keysLeft' = [keysLeft EXCEPT ![t] = MapIterate(table)]
  /\ calls' = [calls EXCEPT ![t] = Append(@, Call("Iterate", NoKey, TRUE, TRUE))]
  /\ phasesRun' = [phasesRun EXCEPT ![t] = Append(@, "removeUnused")]
  /\ pc' = [pc EXCEPT ![t] = "removeLoop"]
  /\ UNCHANGED <<cidrSets, table, synced, mutex, setsLeft, cur, event, seen,
                 table0, gateLocks, converged, wasConverged>>
  /\ UNCHANGED cniVars

\* removeUnusedCIDRs: one turn of the loop labelled nextCIDR (map order)
RemoveLoop(t) ==
  /\ pc[t] = "removeLoop"
  /\ \E worldCIDR \in keysLeft[t] :
       IF ~Unused(worldCIDR, cidrSets)
         THEN /\ keysLeft' = [keysLeft EXCEPT ![t] = KeysLeftAfter(@, worldCIDR, TRUE)]
              /\ UNCHANGED <<table, calls>>
         ELSE \/ /\ worldCIDR \in table
                 /\ table' = MapDelete(table, GetCIDR(worldCIDR))
                 /\ calls' = [calls EXCEPT ![t] =
                                Append(@, Call("Delete", worldCIDR, TRUE, TRUE))]
                 /\ keysLeft' = [keysLeft EXCEPT ![t] = KeysLeftAfter(@, worldCIDR, TRUE)]
              \/ /\ table' = table
                 /\ calls' = [calls EXCEPT ![t] =
                                Append(@, Call("Delete", worldCIDR, FALSE, worldCIDR \in table))]
                 /\ keysLeft' = [keysLeft EXCEPT ![t] = KeysLeftAfter(@, worldCIDR, FALSE)]
  /\ UNCHANGED <<cidrSets, synced, mutex, pc, worldCIDRs, setsLeft, cur, event,
                 seen, phasesRun, table0, gateLocks, converged, wasConverged>>
  /\ UNCHANGED cniVars

\* removeUnusedCIDRs returns
RemoveDone(t) ==
  /\ pc[t] = "removeLoop"
  /\ keysLeft[t] = {}
  /\ pc' = [pc EXCEPT ![t] = StepAfter(phasesRun[t])]
  /\ worldCIDRs' = [worldCIDRs EXCEPT ![t] = {}]
  /\ UNCHANGED <<cidrSets, table, synced, mutex, setsLeft, cur, keysLeft, event,
                 seen, phasesRun, calls, table0, gateLocks, converged, wasConverged>>
  /\ UNCHANGED cniVars

\* manager.Unlock(): the handler returns, the sync gate goroutine ends
Unlock(t) ==
  /\ pc[t] = "unlock"
  /\ mutex' = NoThread
  /\ pc' = [pc EXCEPT ![t] = IF t = Poller THEN "done" ELSE "idle"]
  /\ converged' = IF phasesRun[t] # <<>> THEN AllOk(calls[t]) ELSE converged
  /\ event' = [event EXCEPT ![t] = NoEvent]
  /\ seen' = [seen EXCEPT ![t] = "none"]
  /\ phasesRun' = [phasesRun EXCEPT ![t] = <<>>]
  /\ calls' = [calls EXCEPT ![t] = <<>>]
  /\ table0' = [table0 EXCEPT ![t] = {}]
  /\ wasConverged' = [wasConverged EXCEPT ![t] = FALSE]
  /\ UNCHANGED <<cidrSets, table, synced, loopVars, gateLocks>>
  /\ UNCHANGED cniVars

Next ==
  \/ OracleChange
  \/ Poll
  \/ GateLock
  \/ \E h \in Handlers, id \in IDs, cidrs \in CIDRLists : OnAddWorldCIDRSet(h, id, cidrs)
  \/ \E h \in Handlers, id \in IDs : OnDeleteWorldCIDRSet(h, id)
  \/ \E t \in Threads : Reconcile(t)
  \/ \E t \in Threads : AddMissingSnapshot(t)
  \/ \E t \in Threads : AddLoop(t)
  \/ \E t \in Threads : AddDone(t)
  \/ \E t \in Threads : RemoveUnusedSnapshot(t)
  \/ \E t \in Threads : RemoveLoop(t)
  \/ \E t \in Threads : RemoveDone(t)
  \/ \E t \in Threads : Unlock(t)

Spec == Init /\ [][Next]_vars
\* the same manager, under the name used by the properties of the call log of
\* a pass and of the store
LogSpec == Init /\ [][Next]_vars

TypeOK ==
  /\ DOMAIN cidrSets \subseteq IDs
  /\ \A id \in DOMAIN cidrSets : cidrSets[id] \in CIDRLists
  /\ table \subseteq Keys
  /\ synced \in BOOLEAN
  /\ mutex \in Threads \cup {NoThread}
  /\ \A t \in Threads : seen[t] \in {"none", "synced", "notsynced"}

\* ---------------------------------------------------------- vocabulary
\* the goroutine is inside a pass: between the first snapshot and the return
InPass(t) == pc[t] \in {"addMissing", "addLoop", "removeUnused", "removeLoop"}
\* the goroutine is between manager.Lock() and manager.Unlock()
Holding(t) == InPass(t) \/ pc[t] \in {"reconcile", "unlock"}
\* reconcile() has returned after running a pass
PassFinished(t) == pc[t] = "unlock" /\ phasesRun[t] # <<>>
FullPass == <<"addMissing", "removeUnused">>
AddsOf(t) == {calls[t][i].key : i \in OpsOf(calls[t], "Add")}
AddedOk(t) == {calls[t][i].key : i \in {j \in OpsOf(calls[t], "Add") : calls[t][j].ok}}
DeletesOf(t) == {calls[t][i].key : i \in OpsOf(calls[t], "Delete")}
\* the keys listed by the live sets other than id
OtherKeys(id) == UNION {KeysOf(cidrSets[i]) : i \in DOMAIN cidrSets \ {id}}
\* the store holds what the event of handler h asked for
StoreApplied(h) ==
  /\ event[h].op = "add" =>
       event[h].id \in DOMAIN cidrSets /\ cidrSets[event[h].id] = event[h].cidrs
  /\ event[h].op = "delete" => event[h].id \notin DOMAIN cidrSets

\* --------------------------------------------------------------- claims

\* C1 (convergence): when a reconcile pass has finished and every Add and
\* Delete call of it succeeded, the keys of the map are exactly the union of
\* the keys of the CIDRs of all sets in the store, whatever the map held before.
C1_Convergence ==
  \A t \in Threads :
    (PassFinished(t) /\ AllOk(calls[t])) => table = DesiredKeys(cidrSets)

\* C1 witness: a handler's pass, run while synced, has finished after a
\* successful Add and a successful Delete.
C1_Witness ==
  \E h \in Handlers :
    /\ PassFinished(h) /\ AllOk(calls[h]) /\ seen[h] = "synced"
    /\ AddsOf(h) # {} /\ DeletesOf(h) # {}

\* C2 (phase ordering): in the calls of one pass no Add comes after a Delete,
\* and once a Delete has been issued an Add has been attempted for every
\* desired key that was missing from the map when the pass started.
C2_PhaseOrdering ==
  \A t \in Threads :
    /\ \A i \in OpsOf(calls[t], "Delete") : \A j \in OpsOf(calls[t], "Add") : j < i
    /\ DeletesOf(t) # {} => (DesiredKeys(cidrSets) \ table0[t]) \subseteq AddsOf(t)

\* C2 witness: a pass that found a missing key and a stale key at once has
\* issued an Add and a Delete.
C2_Witness ==
  \E t \in Threads :
    /\ AddsOf(t) # {} /\ DeletesOf(t) # {}
    /\ DesiredKeys(cidrSets) \ table0[t] # {}
    /\ table0[t] \ DesiredKeys(cidrSets) # {}

\* C3 (no disruption): while a goroutine holds the lock, every desired key
\* that was in the map when it took the lock, or whose Add succeeded in this
\* pass, is in the map; and no Delete of the pass targets a desired key.
C3_NoDisruption ==
  \A t \in Threads :
    mutex = t =>
      /\ \A k \in DesiredKeys(cidrSets) : k \in table0[t] \cup AddedOk(t) => k \in table
      /\ DeletesOf(t) \cap DesiredKeys(cidrSets) = {}

\* C3 witness: a pass has deleted a stale entry while a desired entry that
\* was there before and a desired entry it added are both in the map.
C3_Witness ==
  \E t \in Threads :
    /\ mutex = t /\ DeletesOf(t) # {}
    /\ DesiredKeys(cidrSets) \cap table0[t] # {}
    /\ AddedOk(t) # {}

\* C4 (pre-readiness no-op): an event whose reconcile() found the oracle not
\* synced, or that returned before reconcile(), has applied its mutation to
\* the store, has issued no Iterate, Add or Delete, and has left the map as
\* it was.
C4_PreReadinessNoop ==
  \A h \in Handlers :
    (mutex = h /\ seen[h] # "synced") =>
      /\ pc[h] \in {"reconcile", "unlock"}
      /\ calls[h] = <<>>
      /\ table = table0[h]
      /\ StoreApplied(h)

\* C4 witness: an add event has been handled while not synced; the store
\* holds the set and the map, which differs from the desired keys, is untouched.
C4_Witness ==
  \E h \in Handlers :
    /\ pc[h] = "unlock" /\ seen[h] = "notsynced" /\ event[h].op = "add"
    /\ cidrSets[event[h].id] # <<>>
    /\ table # DesiredKeys(cidrSets)

C8_MutualExclusion ==
  /\ [](Cardinality({t \in Threads : Holding(t)}) <= 1)
  /\ [][(\E t \in Threads : InPass(t)) => cidrSets' = cidrSets]_vars

\* C8 witness: a handler is inside a pass while the sync gate goroutine
\* waits for the lock.
C8_Witness ==
  \E h \in Handlers : InPass(h) /\ calls[h] # <<>> /\ pc[Poller] = "lock"

\* C9 (idempotence): a reconcile() that starts after a pass that succeeded
\* throughout, the store being as that pass left it, issues no Add and no
\* Delete and leaves the map unchanged.
C9_Idempotence ==
  \A t \in Threads :
    (mutex = t /\ wasConverged[t]) =>
      AddsOf(t) = {} /\ DeletesOf(t) = {} /\ table = table0[t]

\* C9 witness: a second pass over an unchanged, non-empty store has finished.
C9_Witness ==
  \E t \in Threads :
    /\ wasConverged[t] /\ PassFinished(t) /\ phasesRun[t] = FullPass
    /\ table # {}

\* C10 (update overwrite): an add event for an identity the store holds makes
\* the store hold exactly the new list; after its pass succeeded every key of
\* the new list is in the map and a key only the old list had, listed by no
\* other set, is not.
C10_UpdateOverwrite ==
  \A h \in Handlers :
    (mutex = h /\ event[h].op = "add" /\ event[h].known) =>
      /\ cidrSets[event[h].id] = event[h].cidrs
      /\ (PassFinished(h) /\ AllOk(calls[h])) =>
           /\ KeysOf(event[h].cidrs) \subseteq table
           /\ \A k \in event[h].old \ (KeysOf(event[h].cidrs) \cup OtherKeys(event[h].id)) :
                k \notin table

\* C10 witness: an update has replaced a list whose key was in the map and is
\* listed by nobody else, and its pass has succeeded with a new key added.
C10_Witness ==
  \E h \in Handlers :
    /\ event[h].op = "add" /\ event[h].known
    /\ PassFinished(h) /\ AllOk(calls[h])
    /\ (event[h].old \ (KeysOf(event[h].cidrs) \cup OtherKeys(event[h].id))) \cap table0[h] # {}
    /\ KeysOf(event[h].cidrs) \ table0[h] # {}

\* C11 (safety): a prefix shared with another live set survives the deletion
\* of a set.  While the handler of a delete (or of an update) of a stored set
\* holds the lock, no Delete is called for a key that a set still in the store
\* lists, and such a key that was in the map when the handler started is still
\* in it; a Delete is called only for keys no live set lists; and a key of the
\* old set that no live set lists any more is out of the map once the pass has
\* finished with every call succeeding.
C11_SharedPrefixSurvives ==
  \A h \in Handlers :
    (mutex = h /\ event[h].op # "none" /\ event[h].known) =>
      /\ \A k \in event[h].old \cap DesiredKeys(cidrSets) :
            k \notin DeletesOf(h) /\ (k \in table0[h] => k \in table)
      /\ DeletesOf(h) \cap DesiredKeys(cidrSets) = {}
      /\ (PassFinished(h) /\ AllOk(calls[h])) =>
            \A k \in event[h].old \ DesiredKeys(cidrSets) : k \notin table
\* a delete of set whose key another live set lists has run its pass; the key
\* was in the map and is still there, and no Delete was called for it
C11_Witness ==
  \E h \in Handlers :
    /\ PassFinished(h) /\ AllOk(calls[h])
    /\ event[h].op = "delete" /\ event[h].known
    /\ \E k \in event[h].old \cap OtherKeys(event[h].id) :
          k \in table0[h] /\ k \in table /\ k \notin DeletesOf(h)

\* the Add calls of the pass of t, and those of them that failed
AddCalls(t) == OpsOf(calls[t], "Add")
FailedAdds(t) == {i \in AddCalls(t) : ~calls[t][i].ok}
\* the Delete calls of the pass of t, and those of them that failed
DeleteCalls(t) == OpsOf(calls[t], "Delete")
FailedDeletes(t) == {i \in DeleteCalls(t) : ~calls[t][i].ok}

\* C12 (error handling): failure isolation in phase 1.  When a pass has
\* finished, Add was called for every key the store lists that the map lacked
\* at the start of the pass, whether or not another Add of the pass failed;
\* every key whose Add succeeded is in the map; a key whose Add failed got no
\* second Add call in the pass; and phase 2 ran.
C12_AddFailureIsolation ==
  \A t \in Threads :
    PassFinished(t) =>
      /\ DesiredKeys(cidrSets) \ table0[t] \subseteq AddsOf(t)
      /\ AddedOk(t) \subseteq table
      /\ \A i \in FailedAdds(t) : \A j \in AddCalls(t) \ {i} :
            calls[t][j].key # calls[t][i].key
      /\ phasesRun[t] = FullPass

\* the handler h is about to return from a delete of an id the store lacked
UnknownDelete(h) == event[h].op = "delete" /\ ~event[h].known

\* C13 as stated (triggering): every event handled while the oracle reports
\* synced, a delete of an identity that is not in the store included, has run
\* one full pass when the handler is about to return.
C13_EveryEventRunsPass ==
  \A h \in Handlers :
    (pc[h] = "unlock" /\ synced /\ seen[h] # "notsynced") => phasesRun[h] = FullPass
\* C13 as amended (triggering): an add, an update, or a delete of a stored
\* identity, whose reconcile() finds the oracle synced, has run one full pass
\* (both snapshots, phase 1 then phase 2) when the handler is about to return,
\* and runs it holding the lock; a delete of an identity that is not in the
\* store, and only that event, returns without asking the oracle and without
\* any call on the map.
C13_StoredEventRunsPass ==
  \A h \in Handlers :
    /\ Holding(h) => mutex = h
    /\ pc[h] = "unlock" =>
         /\ seen[h] = "synced" =>
               phasesRun[h] = FullPass /\ Cardinality(OpsOf(calls[h], "Iterate")) = 2
         /\ seen[h] = "none" <=> UnknownDelete(h)
         /\ UnknownDelete(h) => phasesRun[h] = <<>> /\ calls[h] = <<>>
\* a delete of a stored set, handled while synced, is about to return after
\* its full pass
C13_Witness ==
  \E h \in Handlers :
    /\ pc[h] = "unlock" /\ seen[h] = "synced"
    /\ event[h].op = "delete" /\ event[h].known
    /\ phasesRun[h] = FullPass

\* C14 (frame): a delete of an identity that is not in the store is a no-op.
\* The step that takes the event, and every step up to the handler's return,
\* leaves the store and the map as they are; the handler goes straight to its
\* return with no call on the map.
C14_UnknownDeleteNoop ==
  /\ [](\A h \in Handlers :
          UnknownDelete(h) => pc[h] = "unlock" /\ calls[h] = <<>> /\ table = table0[h])
  /\ [][\A h \in Handlers :
          /\ (UnknownDelete(h) \/ UnknownDelete(h)') =>
                cidrSets' = cidrSets /\ table' = table
          /\ (UnknownDelete(h) /\ pc'[h] # pc[h]) => pc'[h] = "idle" /\ mutex' = NoThread]_vars
\* a delete of an unknown identity is about to return while the oracle reports
\* synced and the map differs from what the store lists: a pass would have
\* changed the map
C14_Witness ==
  \E h \in Handlers :
    /\ UnknownDelete(h) /\ pc[h] = "unlock" /\ synced
    /\ DOMAIN cidrSets # {}
    /\ table # DesiredKeys(cidrSets)

\* C15 (error handling): the store mutation does not depend on the outcome at
\* the map.  From the step that takes an event to the handler's return, the
\* store maps the id of an added set to the CIDRs of the event and has no
\* entry for a deleted id, whether reconcile() found the oracle synced or not
\* and whether or not a call of the pass failed: nothing rolls the store back.
C15_StoreMutationKept ==
  \A h \in Handlers :
    (Holding(h) /\ event[h].op # "none") =>
      /\ mutex = h
      /\ StoreApplied(h)
      /\ (pc[h] = "unlock" /\ ~UnknownDelete(h)) => seen[h] \in {"synced", "notsynced"}
\* an add is about to return after a pass in which an Add failed: the map lacks
\* a key of the new set, and the store holds the set all the same
C15_Witness ==
  \E h \in Handlers :
    /\ pc[h] = "unlock" /\ event[h].op = "add" /\ FailedAdds(h) # {}
    /\ StoreApplied(h)
    /\ KeysOf(event[h].cidrs) \ table # {}

\* C17 (safety): duplicate-add avoidance.  In a pass no Add is called for a
\* key that is in the map at the moment of the call, and no two Add calls of
\* the pass are for the same key, whatever the sets in the store list.
C17_NoDuplicateAdd ==
  \A t \in Threads :
    /\ \A i \in AddCalls(t) : ~calls[t][i].present
    /\ \A i \in AddCalls(t) : \A j \in AddCalls(t) \ {i} :
          calls[t][j].key # calls[t][i].key

\* some set in the store lists a CIDR with the prefix length of key k and,
\* once masked to that length, the address of k
ListedExactly(k) ==
  \E id \in DOMAIN cidrSets : \E i \in 1..Len(cidrSets[id]) :
    /\ cidrSets[id][i][2] = k[2]
    /\ MaskIP(cidrSets[id][i][1] % Pow2(AddrBits), k[2]) = k[1]
\* the entries of the map when phase 2 of the pass of t took its snapshot
AtPhase2(t) == table0[t] \cup AddedOk(t)

\* C18 (functional correctness): stale detection uses exact equality.  When a
\* full pass has finished, an entry the map held at the start of phase 2 got
\* no Delete call if and only if some set in the store lists a CIDR of the
\* same prefix length and the same masked address; so an entry that only
\* contains, or is contained in, a listed prefix got a Delete call, and is out
\* of the map when that call succeeded.
C18_ExactMatchOnly ==
  \A t \in Threads :
    (pc[t] = "unlock" /\ phasesRun[t] = FullPass) =>
      \A k \in AtPhase2(t) :
        /\ k \notin DeletesOf(t) <=> ListedExactly(k)
        /\ (~ListedExactly(k) /\ \E d \in DesiredKeys(cidrSets) : Overlaps(k, d)) =>
              \E i \in DeleteCalls(t) :
                calls[t][i].key = k /\ (calls[t][i].ok => k \notin table)
\* a pass has finished in which the map held an entry that contains a listed
\* prefix without being equal to it: the entry was deleted while the listed
\* prefix is in the map
C18_Witness ==
  \E t \in Threads :
    /\ pc[t] = "unlock" /\ phasesRun[t] = FullPass
    /\ \E k \in table0[t], d \in DesiredKeys(cidrSets) :
          /\ k # d /\ Overlaps(k, d)
          /\ k \in DeletesOf(t) /\ k \notin table /\ d \in table

\* C19 (error handling): recovery from a failed entry.  A key whose Add failed
\* in a pass is not in the map for the rest of the pass (nothing is retried
\* before the next trigger), and a key whose Delete failed is still in it; a
\* pass calls Add for every listed key the map lacked at its start and Delete
\* for every entry no set lists, so also for those an earlier pass failed on;
\* and a pass whose calls all succeed leaves the map with exactly the listed
\* keys.
C19_Recovery ==
  \A t \in Threads :
    /\ \A i \in FailedAdds(t) : calls[t][i].key \notin table
    /\ \A i \in FailedDeletes(t) : calls[t][i].key \in table
    /\ PassFinished(t) =>
         /\ DesiredKeys(cidrSets) \ table0[t] \subseteq AddsOf(t)
         /\ AtPhase2(t) \ DesiredKeys(cidrSets) \subseteq DeletesOf(t)
         /\ AllOk(calls[t]) => table = DesiredKeys(cidrSets)

\* C20 (error handling): failure isolation in phase 2.  When a full pass has
\* finished, every entry the map held at the start of phase 2 that no set
\* lists got exactly one Delete call, whether or not another Delete of the
\* pass failed; an entry whose Delete succeeded is out of the map and one
\* whose Delete failed is still in it; and every entry that a set lists is
\* still in the map.
C20_DeleteFailureIsolation ==
  \A t \in Threads :
    (pc[t] = "unlock" /\ phasesRun[t] = FullPass) =>
      /\ \A k \in AtPhase2(t) \ DesiredKeys(cidrSets) :
            Cardinality({i \in DeleteCalls(t) : calls[t][i].key = k}) = 1
      /\ \A i \in DeleteCalls(t) : calls[t][i].ok <=> calls[t][i].key \notin table
      /\ AtPhase2(t) \cap DesiredKeys(cidrSets) \subseteq table
\* a pass has finished in which a Delete failed and a Delete called after it
\* succeeded, with a listed entry in the map throughout
C20_Witness ==
  \E t \in Threads :
    /\ pc[t] = "unlock" /\ phasesRun[t] = FullPass
    /\ \E i \in FailedDeletes(t) : \E j \in DeleteCalls(t) :
          j > i /\ calls[t][j].ok /\ calls[t][i].key \in table
    /\ table0[t] \cap DesiredKeys(cidrSets) # {}

\* the events a handler can be called with
Events ==
  {[op |-> "add", id |-> id, cidrs |-> cidrs] : id \in IDs, cidrs \in CIDRLists}
    \cup {[op |-> "delete", id |-> id, cidrs |-> <<>>] : id \in IDs}
\* the store after the handler of event e has changed it
StoreAfter(sets, e) ==
  IF e.op = "add" THEN SetsAfterAdd(sets, e.id, e.cidrs)
  ELSE IF SetNotFound(sets, e.id) THEN sets ELSE SetsAfterDelete(sets, e.id)
\* the map after addMissingCIDRs, every Add succeeding: the snapshot and the
\* keys of the listed CIDRs that addCIDR does not find in it
TableAfterAdd(sets, tbl) ==
  tbl \cup {k \in DesiredKeys(sets) : ~CIDRPresent(k, MapIterate(tbl))}
\* the map after removeUnusedCIDRs, every Delete succeeding
TableAfterRemove(sets, tbl) == {k \in MapIterate(tbl) : ~Unused(k, sets)}
\* the map after reconcile() run while the oracle reports synced
TableAfterPass(sets, tbl) == TableAfterRemove(sets, TableAfterAdd(sets, tbl))
\* store and map after the handler of e has run to its return, the oracle
\* synced and every call succeeding; a delete of an unknown id runs no pass
Handled(st, e) ==
  IF e.op = "delete" /\ SetNotFound(st.sets, e.id) THEN st
  ELSE [sets |-> StoreAfter(st.sets, e),
        tbl |-> TableAfterPass(StoreAfter(st.sets, e), st.tbl)]

\* C21 (algebraic): events on distinct identities commute.  From every store
\* and map the manager can be in while the oracle reports synced, no handler
\* is running and the mutex is free, handling two events on different ids in
\* either order, with every call succeeding, ends with the same store and
\* the same map; and a handler that has finished such a pass has left the map
\* that this calculation gives.
C21_DistinctIdsCommute ==
  /\ \A h \in Handlers :
       (PassFinished(h) /\ AllOk(calls[h])) => table = TableAfterPass(cidrSets, table0[h])
  /\ (synced /\ mutex = NoThread /\ \A h \in Handlers : pc[h] = "idle") =>
       \A e1 \in Events, e2 \in Events :
         e1.id # e2.id =>
           LET st == [sets |-> cidrSets, tbl |-> table]
           IN  Handled(Handled(st, e1), e2) = Handled(Handled(st, e2), e1)
\* a handler has finished a pass with every call succeeding that changed the
\* map, for an event on one id, while the store holds a set under another id
\* whose keys were in the map already: events on two ids have been handled
C21_Witness ==
  \E h \in Handlers :
    /\ PassFinished(h) /\ AllOk(calls[h])
    /\ OtherKeys(event[h].id) # {}
    /\ OtherKeys(event[h].id) \subseteq table0[h]
    /\ table # table0[h]

\* C25 (termination): no blocking by the poller.  The sync gate goroutine does
\* not hold the mutex while it polls the oracle (it holds it only from its
\* Lock() to its Unlock()), and every caller that has entered a handler gets
\* the mutex and returns, whatever the oracle reports and for how long.
C25_HandlersNotBlocked ==
  /\ [](mutex = Poller <=> Holding(Poller))
  /\ \A h \in Handlers : (pc[h] = "called") ~> (pc[h] = "idle")
\* a handler is about to return while the poller is in its loop and the oracle
\* reports not synced, the other caller waiting for the mutex
C25_Witness ==
  \E h \in Handlers :
    /\ pc[h] = "unlock" /\ seen[h] = "notsynced" /\ ~synced
    /\ pc[Poller] = "poll"
    /\ \E g \in Handlers \ {h} : pc[g] = "called"

\* C26 (safety): Delete is only issued for present entries.  Every Delete call
\* of a pass is for a key that is in the map at the moment of the call and
\* that the map held when phase 2 took its snapshot, and no two Delete calls
\* of a pass are for the same key: no call of the manager can fail because the
\* prefix is not present.
C26_DeleteOnlyPresent ==
  \A t \in Threads :
    calls[t] # <<>> =>
      LET deletes == DeleteCalls(t)
      IN  \A i \in deletes :
            /\ calls[t][i].present
            /\ calls[t][i].key \in AtPhase2(t)
            /\ \A j \in deletes \ {i} : calls[t][j].key # calls[t][i].key
\* a pass has called Delete for two entries, one call failing, and each entry
\* was in the map when its call was made
C26_Witness ==
  \E t \in Threads :
    /\ Cardinality(DeleteCalls(t)) >= 2
    /\ FailedDeletes(t) # {}
    /\ \A i \in DeleteCalls(t) : calls[t][i].present

\* ------------------------------------------------------------- liveness
\* a step of goroutine t between manager.Lock() and the end of Unlock(): none
\* of them waits for anything, so a goroutine that is scheduled takes it
LockedStep(t) ==
  \/ Reconcile(t)
  \/ AddMissingSnapshot(t)
  \/ AddLoop(t)
  \/ AddDone(t)
  \/ RemoveUnusedSnapshot(t)
  \/ RemoveLoop(t)
  \/ RemoveDone(t)
  \/ Unlock(t)

\* The system as far as the sync gate goroutine can tell.  The mutex lets one
\* handler at a time past manager.Lock() and the handlers are alike, so one
\* handler stands for them all; an event that arrives after the goroutine has
\* ended cannot bear on what the goroutine did, so none is taken then.
GateHandler == "h1"
GateNext ==
  \/ OracleChange
  \/ Poll
  \/ GateLock
  \/ /\ pc[Poller] # "done"
     /\ \E id \in IDs, cidrs \in CIDRLists : OnAddWorldCIDRSet(GateHandler, id, cidrs)
  \/ /\ pc[Poller] # "done"
     /\ \E id \in IDs : OnDeleteWorldCIDRSet(GateHandler, id)
  \/ \E t \in Threads : LockedStep(t)

\* The Go scheduler runs every runnable goroutine again and again: the poller
\* gets its turn of the loop, and whoever holds the mutex goes on to Unlock.
\* sync.Mutex hands the lock to a goroutine that has waited for it (starvation
\* mode), so the poller blocked in manager.Lock() gets the mutex although
\* handlers keep taking it: strong fairness on GateLock.  Events and changes of
\* the oracle's answer are under no obligation to happen.
FairSpec ==
  /\ Init /\ [][GateNext]_vars
  /\ WF_vars(Poll)
  /\ SF_vars(GateLock)
  /\ \A t \in Threads : WF_vars(LockedStep(t))

\* The system with the call of a handler and its manager.Lock() as two steps:
\* a caller enters a handler at any time and then waits for the mutex.  Who
\* gets the mutex does not depend on what the events are about: the map starts
\* empty and both callers send events on one identity.
CallID == "a"
CallInit == Init /\ table = {}
CallNext ==
  \/ OracleChange
  \/ Poll
  \/ GateLock
  \/ \E h \in Handlers : Called(h)
  \/ \E h \in Handlers, cidrs \in CIDRLists :
       pc[h] = "called" /\ OnAddWorldCIDRSet(h, CallID, cidrs)
  \/ \E h \in Handlers :
       pc[h] = "called" /\ OnDeleteWorldCIDRSet(h, CallID)
  \/ \E t \in Threads : LockedStep(t)
\* manager.Lock() returns in the handler that caller h has entered
HandlerLock(h) ==
  /\ pc[h] = "called"
  /\ \/ \E cidrs \in CIDRLists : OnAddWorldCIDRSet(h, CallID, cidrs)
     \/ OnDeleteWorldCIDRSet(h, CallID)
\* Whoever holds the mutex is scheduled until it has unlocked, and sync.Mutex
\* hands the lock to a caller that has waited for it.  Nothing is asked of the
\* oracle or of the poller's loop.
CallFairSpec ==
  /\ CallInit /\ [][CallNext]_vars
  /\ \A t \in Threads : WF_vars(LockedStep(t))
  /\ \A h \in Handlers : SF_vars(HandlerLock(h))

\* the sync gate goroutine has run a full pass
GatePassDone == pc[Poller] = "unlock" /\ phasesRun[Poller] = FullPass

MaxPlugins == 2
PluginTypes == {"calico", "cilium-cni"}
ChainModes == {"generic-veth"}
NotJSON == [json |-> FALSE]
NilBytes == [json |-> FALSE, nil |-> TRUE]
\* json.MarshalIndent of a map, and json.Unmarshal into a map
Marshal(obj) == [json |-> TRUE, obj |-> obj]
Unmarshal(bytes) ==
  IF bytes.json THEN [err |-> FALSE, map |-> bytes.obj]
  ELSE [err |-> TRUE, map |-> [k \in {} |-> ""]]
Has(m, k) == k \in DOMAIN m
\* delete(m, k)
Without(m, k) == [x \in DOMAIN m \ {k} |-> m[x]]
\* m[k] of a map[string]interface{}: nil when the key is missing
Lookup(m, k) == IF Has(m, k) THEN m[k] ELSE "<nil>"
StringField(m, k) == IF Has(m, k) THEN m[k] ELSE ""

\* the plugin objects of a list whose i-th plugin has type types[i]; the name
\* tells the plugins apart: who is the prefix "o" or "i"
PluginsOf(who, types) ==
  [i \in 1..Len(types) |->
     [type |-> types[i], name |-> <<who, i>>, cniVersion |-> "0.2.0"]]
TypeLists == UNION {[1..n -> PluginTypes] : n \in 0..MaxPlugins}
\* the configurations a caller can hand over: a single network configuration
\* (a .conf), a list (a .conflist), each with or without a cniVersion of its
\* own, an object that is neither, and bytes that are no JSON object
ConfObjects(who) ==
  {[type |-> t, name |-> <<who, 1>>, cniVersion |-> "0.2.1"] : t \in PluginTypes}
    \cup {[type |-> t, name |-> <<who, 1>>] : t \in PluginTypes}
ListObjects(who) ==
  {[name |-> <<who, 0>>, plugins |-> PluginsOf(who, ts), cniVersion |-> "0.3.0"] :
     ts \in TypeLists}
    \cup {[name |-> <<who, 0>>, plugins |-> PluginsOf(who, ts)] : ts \in TypeLists}
Configs(who) ==
  {Marshal(o) : o \in ConfObjects(who) \cup ListObjects(who)}
    \cup {Marshal([name |-> <<who, 0>>]), NotJSON}

\* getPlugins and getPluginsFromCNIConfigMap
getPluginsFromCNIConfigMap(cniConfigMap) ==
  IF Has(cniConfigMap, "type") THEN [err |-> FALSE, plugins |-> <<cniConfigMap>>]
  ELSE IF Has(cniConfigMap, "plugins")
         THEN [err |-> FALSE, plugins |-> cniConfigMap.plugins]
         ELSE [err |-> TRUE, plugins |-> <<>>]

\* insertConfList: oPlugin["type"] == iPlugin["type"]
SameType(oPlugin, iPlugin) == Lookup(oPlugin, "type") = Lookup(iPlugin, "type")

\* insertConfList, the inner loop for one inserted plugin: the range over
\* originalPlugins deletes the cniVersion of every plugin it visits and stops
\* at the first one of the type of iPlugin, which it cuts out of the slice
RemoveFirstMatch(originalPlugins, iPlugin) ==
  LET hits == {i \in 1..Len(originalPlugins) : SameType(originalPlugins[i], iPlugin)}
  IN  IF hits = {}
        THEN [i \in 1..Len(originalPlugins) |-> Without(originalPlugins[i], "cniVersion")]
        ELSE LET m == CHOOSE i \in hits : \A j \in hits : i <= j
             IN  [i \in 1..(Len(originalPlugins) - 1) |->
                    IF i < m THEN Without(originalPlugins[i], "cniVersion")
                    ELSE originalPlugins[i + 1]]
\* insertConfList, the outer loop; the plugin appended for one inserted plugin
\* is part of originalPlugins when the next one is looked for
RECURSIVE InsertPlugins(_, _)
InsertPlugins(originalPlugins, insertedPlugins) ==
  IF insertedPlugins = <<>> THEN originalPlugins
  ELSE InsertPlugins(
         Append(RemoveFirstMatch(originalPlugins, Head(insertedPlugins)),
                Without(Head(insertedPlugins), "cniVersion")),
         Tail(insertedPlugins))

DefaultCniVersion == "0.3.1"
insertConfList(cniChainMode, original, inserted) ==
  LET o == Unmarshal(original)
      i == Unmarshal(inserted)
      version == IF Has(i.map, "cniVersion") THEN i.map.cniVersion
                 ELSE IF Has(o.map, "cniVersion") THEN o.map.cniVersion
                 ELSE DefaultCniVersion
      oPlugins == getPluginsFromCNIConfigMap(Without(o.map, "cniVersion"))
      iPlugins == getPluginsFromCNIConfigMap(Without(i.map, "cniVersion"))
  IN  IF o.err \/ i.err \/ oPlugins.err \/ iPlugins.err
        THEN [fn |-> "insertConfList", err |-> TRUE, bytes |-> NilBytes]
        ELSE [fn |-> "insertConfList", err |-> FALSE,
              bytes |-> Marshal([name |-> cniChainMode, cniVersion |-> version,
                                 plugins |-> InsertPlugins(oPlugins.plugins,
                                                           iPlugins.plugins)])]

InsertArgs ==
  {[fn |-> "insertConfList", cniChainMode |-> m, original |-> o, inserted |-> i] :
     m \in ChainModes, o \in Configs("o"), i \in Configs("i")}

\* ---- files and directories
\* A file name is the sequence of its characters; sort.Strings orders names
\* byte by byte, which is the order of the characters in Alphabet.
Alphabet == <<".", "2", "a", "b", "c", "e", "f", "i", "l", "n", "o", "s", "t">>
Ord(c) == CHOOSE i \in 1..Len(Alphabet) : Alphabet[i] = c
ConfExt == <<".", "c", "o", "n", "f">>
ConflistExt == <<".", "c", "o", "n", "f", "l", "i", "s", "t">>
OtherExt == <<".", "f", "i", "l", "e">>
MaxFiles == 2
FileNames ==
  {base \o ext : base \in {<<"a">>, <<"a", "2">>, <<"b">>},
                 ext \in {ConfExt, ConflistExt, OtherExt}}
\* strings.HasSuffix
HasSuffix(name, suffix) ==
  /\ Len(name) >= Len(suffix)
  /\ SubSeq(name, Len(name) - Len(suffix) + 1, Len(name)) = suffix
\* filepath.Ext: the suffix of the name that begins at its last dot
Ext(name) ==
  LET dots == {i \in 1..Len(name) : name[i] = "."}
  IN  IF dots = {} THEN <<>>
      ELSE SubSeq(name, CHOOSE i \in dots : \A j \in dots : j <= i, Len(name))
\* a < b for strings
RECURSIVE LexLess(_, _)
LexLess(a, b) ==
  IF b = <<>> THEN FALSE
  ELSE IF a = <<>> THEN TRUE
  ELSE IF Head(a) # Head(b) THEN Ord(Head(a)) < Ord(Head(b))
  ELSE LexLess(Tail(a), Tail(b))
\* the names in decreasing order
RECURSIVE SortStringsDescending(_)
SortStringsDescending(files) ==
  IF files = {} THEN <<>>
  ELSE LET last == CHOOSE f \in files : \A g \in files : g = f \/ LexLess(g, f)
       IN  <<last>> \o SortStringsDescending(files \ {last})
\* sort.Strings(files): the names in increasing order
RECURSIVE SortStrings(_)
SortStrings(files) ==
  IF files = {} THEN <<>>
  ELSE LET first == CHOOSE f \in files : \A g \in files : g = f \/ LexLess(f, g)
       IN  <<first>> \o SortStrings(files \ {first})

\* what a path holds: a file with its bytes, or nothing
NoFile == [json |-> FALSE, missing |-> TRUE]
IsFile(file) == ~Has(file, "missing")
\* the contents the files of a directory are drawn from: a network with a
\* type, a network without one, a list of one plugin, a list without
\* plugins, and bytes that are not JSON
DirContents ==
  {Marshal([type |-> "cilium-cni", name |-> "cilium-cni", cniVersion |-> "0.3.1"]),
   Marshal([name |-> "cilium-cni", cniVersion |-> "0.3.1"]),
   Marshal([name |-> "generic-veth", cniVersion |-> "0.2.0",
            plugins |-> <<[name |-> "cilium", type |-> "cilium-cni"]>>]),
   Marshal([name |-> "generic-veth", cniVersion |-> "0.2.0", plugins |-> <<>>]),
   NotJSON}
\* a directory that exists holds at most MaxFiles files
Dirs ==
  {[state |-> "unreadable"], [state |-> "missing"]}
    \cup UNION {{[state |-> "ok", files |-> fs] : fs \in [names -> DirContents]}
                  : names \in {ns \in SUBSET FileNames : Cardinality(ns) <= MaxFiles}}

\* ---- libcni, as the tests of cni_utils.go show it to behave
\* libcni.ConfFromFile: the network of a file, an error for a file that cannot
\* be read, is not a JSON object or has no "type"
ConfFromFile(file) ==
  IF ~IsFile(file) \/ Unmarshal(file).err \/ ~Has(Unmarshal(file).map, "type")
    THEN [err |-> TRUE]
    ELSE [err |-> FALSE,
          conf |-> [Bytes |-> file,
                    Network |-> [Type |-> file.obj.type,
                                 Name |-> StringField(file.obj, "name"),
                                 CNIVersion |-> StringField(file.obj, "cniVersion")]]]
\* libcni.ConfListFromFile: the list of a file, an error for a file that
\* cannot be read, is not a JSON object, has no name, no plugins or a plugin
\* without "type"
ConfListFromFile(file) ==
  IF \/ ~IsFile(file) \/ Unmarshal(file).err
     \/ ~Has(Unmarshal(file).map, "name")
     \/ ~Has(Unmarshal(file).map, "plugins")
    THEN [err |-> TRUE]
    ELSE LET plugins == file.obj.plugins
         IN  IF Len(plugins) = 0 \/ \E i \in 1..Len(plugins) : ~Has(plugins[i], "type")
               THEN [err |-> TRUE]
               ELSE [err |-> FALSE, confList |-> [Bytes |-> file, Plugins |-> plugins]]
\* libcni.ConfListFromConf: the list of one plugin that wraps a network
ConfListFromConf(conf) ==
  [err |-> FALSE,
   confList |-> [Bytes |-> Marshal([cniVersion |-> conf.Network.CNIVersion,
                                    name |-> conf.Network.Name,
                                    plugins |-> <<conf.Bytes.obj>>]),
                 Plugins |-> <<conf.Bytes.obj>>]]
\* libcni.ConfFiles: the files of the directory with one of the extensions;
\* none for a directory that does not exist
ConfFiles(confDir, extensions) ==
  IF confDir.state = "unreadable" THEN [err |-> TRUE, files |-> {}]
  ELSE IF confDir.state = "missing" THEN [err |-> FALSE, files |-> {}]
  ELSE [err |-> FALSE, files |-> {f \in DOMAIN confDir.files : Ext(f) \in extensions}]

\* ---- getCNINetworkListFromFile
\* every file taken for a list
UseListLoaderAlways(name) == TRUE
\* strings.HasSuffix(name, ".conflist")
UseListLoader(name) == HasSuffix(name, ConflistExt)
\* the value of a (bytes, error) pair
FileRet(bytes, err) == [fn |-> "getCNINetworkListFromFile", err |-> err, bytes |-> bytes]
\* from the loaded list on: a list without plugins returns the err variable,
\* which is nil at that point
CheckPlugins(loaded) ==
  IF loaded.err THEN FileRet(NilBytes, TRUE)
  ELSE IF Len(loaded.confList.Plugins) = 0 THEN FileRet(NilBytes, FALSE)
  ELSE FileRet(loaded.confList.Bytes, FALSE)
getCNINetworkListFromFile(name, file) ==
  IF UseListLoader(name) THEN CheckPlugins(ConfListFromFile(file))
  ELSE LET loaded == ConfFromFile(file)
       IN  IF loaded.err THEN FileRet(NilBytes, TRUE)
           ELSE IF loaded.conf.Network.Type = "" THEN FileRet(NilBytes, FALSE)
           ELSE CheckPlugins(ConfListFromConf(loaded.conf))
FileArgs ==
  {[fn |-> "getCNINetworkListFromFile", name |-> n, file |-> f] :
     n \in FileNames, f \in Configs("f") \cup {NoFile}}

\* ---- getDefaultCNINetworkList
DirRet(file, bytes, err) ==
  [fn |-> "getDefaultCNINetworkList", err |-> err, file |-> file, bytes |-> bytes]
\* the loop over the sorted files: the first file that loads without error
RECURSIVE FirstValid(_, _)
FirstValid(confDir, files) ==
  IF files = <<>> THEN DirRet(<<>>, NilBytes, TRUE)
  ELSE LET loaded == getCNINetworkListFromFile(Head(files), confDir.files[Head(files)])
       IN  IF loaded.err THEN FirstValid(confDir, Tail(files))
           ELSE DirRet(Head(files), loaded.bytes, FALSE)
getDefaultCNINetworkList(confDir) ==
  LET found == ConfFiles(confDir, {ConfExt, ConflistExt})
  IN  IF found.err THEN DirRet(<<>>, NilBytes, TRUE)
      ELSE IF found.files = {} THEN DirRet(<<>>, NilBytes, TRUE)
      ELSE FirstValid(confDir, SortStrings(found.files))
DirArgs == {[fn |-> "getDefaultCNINetworkList", confDir |-> d] : d \in Dirs}

\* the call of insertConfList returns
InsertConfList ==
  /\ cniArgs.fn = "insertConfList"
  /\ cniRet = NoRet
  /\ cniRet' = insertConfList(cniArgs.cniChainMode, cniArgs.original, cniArgs.inserted)
  /\ UNCHANGED <<managerVars, cniArgs>>
\* the call of getCNINetworkListFromFile returns
GetCNINetworkListFromFile ==
  /\ cniArgs.fn = "getCNINetworkListFromFile"
  /\ cniRet = NoRet
  /\ cniRet' = getCNINetworkListFromFile(cniArgs.name, cniArgs.file)
  /\ UNCHANGED <<managerVars, cniArgs>>
\* the call of getDefaultCNINetworkList returns
GetDefaultCNINetworkList ==
  /\ cniArgs.fn = "getDefaultCNINetworkList"
  /\ cniRet = NoRet
  /\ cniRet' = getDefaultCNINetworkList(cniArgs.confDir)
  /\ UNCHANGED <<managerVars, cniArgs>>

\* the manager as NewWorldCIDRsManager leaves it, and a call of a function of
\* cni_utils.go about to be made
CNIInit ==
  /\ ManagerInit /\ table = {} /\ ~synced
  /\ cniArgs \in InsertArgs \cup FileArgs \cup DirArgs
  /\ cniRet = NoRet
CNINext ==
  \/ InsertConfList
  \/ GetCNINetworkListFromFile
  \/ GetDefaultCNINetworkList
CNISpec == CNIInit /\ [][CNINext]_vars

\* the plugins of a configuration as the caller wrote them, and their names
PluginsIn(bytes) ==
  IF Has(bytes.obj, "type") THEN <<bytes.obj>> ELSE bytes.obj.plugins
NamesOf(plugins) == [i \in 1..Len(plugins) |-> plugins[i].name]
TypesOf(plugins) == {plugins[i].type : i \in 1..Len(plugins)}
\* insertConfList has returned a configuration
Inserted == cniArgs.fn = "insertConfList" /\ cniRet.fn = "insertConfList" /\ ~cniRet.err
\* the sequence s without the elements whose type is in types
RECURSIVE OfOtherTypes(_, _)
OfOtherTypes(plugins, types) ==
  IF plugins = <<>> THEN <<>>
  ELSE IF Head(plugins).type \in types THEN OfOtherTypes(Tail(plugins), types)
       ELSE <<Head(plugins)>> \o OfOtherTypes(Tail(plugins), types)
\* what C22 says the result holds: the original plugins of types that are not
\* inserted, then the inserted plugins
ReplacedByType(original, inserted) ==
  OfOtherTypes(PluginsIn(original), TypesOf(PluginsIn(inserted))) \o PluginsIn(inserted)

\* C22 (functional correctness): the result of insertConfList has
\* the name cniChainMode and its plugins are the original plugins whose type
\* is not the type of an inserted plugin, in their order, followed by the
\* inserted plugins in their order, each with its own fields.
C22_ReplacesByType ==
  Inserted =>
    LET res == cniRet.bytes.obj
        want == ReplacedByType(cniArgs.original, cniArgs.inserted)
    IN  /\ res.name = cniArgs.cniChainMode
        /\ NamesOf(res.plugins) = NamesOf(want)
        /\ \A i \in 1..Len(want) :
             Without(res.plugins[i], "cniVersion") = Without(want[i], "cniVersion")

\* a file getCNINetworkListFromFile can make a network list of: a list with a
\* name and at least one plugin, each with a type, under a name that ends in
\* .conflist, or a network with a type under any other name
IsList(file) ==
  /\ IsFile(file) /\ file.json
  /\ Has(file.obj, "name") /\ Has(file.obj, "plugins")
  /\ Len(file.obj.plugins) >= 1
  /\ \A i \in 1..Len(file.obj.plugins) : Has(file.obj.plugins[i], "type")
IsNetwork(file) == IsFile(file) /\ file.json /\ Has(file.obj, "type")
Usable(name, file) ==
  IF HasSuffix(name, ConflistExt) THEN IsList(file) ELSE IsNetwork(file)
\* the bytes are those of a list with at least one plugin
ListBytes(bytes) ==
  bytes.json /\ Has(bytes.obj, "plugins") /\ Len(bytes.obj.plugins) >= 1
FileLoaded == cniArgs.fn = "getCNINetworkListFromFile" /\ cniRet.fn = "getCNINetworkListFromFile"

\* C23 (error handling): getCNINetworkListFromFile returns a non-nil error and
\* nil bytes for every file that is not a usable network list, among them a
\* .conf whose network has no "type" and a .conflist whose plugin list is
\* empty; it returns a nil error only for a usable file, together with the
\* bytes of a list with at least one plugin: the file's own bytes for a
\* .conflist, the list that wraps the network otherwise.
C23_ErrorUnlessUsableList ==
  FileLoaded =>
    /\ ~Usable(cniArgs.name, cniArgs.file) => (cniRet.err /\ cniRet.bytes = NilBytes)
    /\ ~cniRet.err =>
         /\ Usable(cniArgs.name, cniArgs.file)
         /\ ListBytes(cniRet.bytes)
         /\ HasSuffix(cniArgs.name, ConflistExt) => cniRet.bytes = cniArgs.file
         /\ ~HasSuffix(cniArgs.name, ConflistExt) =>
              cniRet.bytes.obj.plugins = <<cniArgs.file.obj>>
    /\ Usable(cniArgs.name, cniArgs.file) => ~cniRet.err
\* a .conf file with a network that has a type has been loaded as a list of
\* that one plugin
C23_Witness ==
  /\ FileLoaded
  /\ HasSuffix(cniArgs.name, ConfExt)
  /\ IsNetwork(cniArgs.file)
  /\ ~cniRet.err
  /\ cniRet.bytes.obj.plugins = <<cniArgs.file.obj>>

DirListed == cniArgs.fn = "getDefaultCNINetworkList" /\ cniRet.fn = "getDefaultCNINetworkList"
\* the .conf and .conflist files of the directory that load as a network list
ValidFiles(confDir) ==
  IF confDir.state # "ok" THEN {}
  ELSE {f \in DOMAIN confDir.files :
          /\ HasSuffix(f, ConfExt) \/ HasSuffix(f, ConflistExt)
          /\ Usable(f, confDir.files[f])}
\* the .conf and .conflist files of the directory
Candidates(confDir) ==
  IF confDir.state # "ok" THEN {}
  ELSE {f \in DOMAIN confDir.files : HasSuffix(f, ConfExt) \/ HasSuffix(f, ConflistExt)}

\* C24 (functional correctness): getDefaultCNINetworkList returns the file
\* with the smallest name among the .conf and .conflist files of the
\* directory that load as a valid network list, with the non-empty list bytes
\* of that file; it returns an error when the directory cannot be read, holds
\* no such file, or holds no valid one; invalid files that sort earlier are
\* skipped.
C24_SmallestValidFile ==
  DirListed =>
    LET valid == ValidFiles(cniArgs.confDir)
    IN  /\ cniRet.err <=> valid = {}
        /\ ~cniRet.err =>
             /\ cniRet.file \in valid
             /\ \A f \in valid : f = cniRet.file \/ LexLess(cniRet.file, f)
             /\ ListBytes(cniRet.bytes)
             /\ cniRet.bytes =
                  getCNINetworkListFromFile(cniRet.file, cniArgs.confDir.files[cniRet.file]).bytes
\* a directory with an invalid file that sorts before a valid one: the valid
\* one has been returned
C24_Witness ==
  /\ DirListed
  /\ ~cniRet.err
  /\ \E f \in Candidates(cniArgs.confDir) \ ValidFiles(cniArgs.confDir) :
       LexLess(f, cniRet.file)
====
